---- MODULE Spec2Model ----
(***************************************************************************)
(* Model of the LabRAD instrument servers spectrum_analyzer.py (HP E4407B) *)
(* and agilent_3640A_dc_source.py (Agilent E3640A).                        *)
(*                                                                         *)
(* Strings are sequences of byte values (Python 2 str).  Floats are exact  *)
(* rationals in lowest terms, [num, den] with den > 0; rounding of IEEE    *)
(* doubles is not modelled.  Exceptions are outcome kinds.                 *)
(***************************************************************************)
EXTENDS Integers, Sequences, FiniteSets, TLC

VARIABLES
    \* ---- _parseBinaryData applied to one response ----
    data,       \* the response handed to _parseBinaryData
    ppc,        \* "ready" | "done"
    parsed,     \* outcome of _parseBinaryData(data)
    \* ---- the spectrum analyzer (instrument side) ----
    startHz,    \* :FREQ:STAR
    spanHz,     \* :FREQ:SPAN
    npts,       \* sweep points held in every trace
    form,       \* :FORM       "INT,32" | "ASC"
    bord,       \* :FORM:BORD  "NORM" | "SWAP"
    outq,       \* replies the instrument has produced and nobody has read
    \* ---- get_trace, one activation per client context ----
    pc,         \* position of each activation
    arg,        \* its `data` argument
    start,      \* its local `start` (Hz, a float)
    span,       \* its local `span` (Hz, a float)
    result,     \* what it returned or raised
    sent,       \* commands it has sent to the instrument in this call
    nrecv,      \* replies it has received in this call
    overlap,    \* TRUE once another request was in flight with one of its own
    ncalls,     \* get_trace calls started so far
    \* ---- the DC source and its `output` setting ----
    dcOut,      \* the supply's output relay
    dcPc,       \* position of the output() activation
    dcArg,      \* its `state` argument ("None", TRUE or FALSE)
    dcRes,      \* what it returned
    dcSent,     \* messages it sent in this call
    dcQ,        \* replies the supply has produced and nobody has read
    dcLog       \* every message the supply has received

pvars  == <<data, ppc, parsed>>
ivars  == <<startHz, spanHz, npts, form, bord, outq>>
gvars  == <<pc, arg, start, span, result, sent, nrecv, overlap, ncalls>>
dvars  == <<dcOut, dcPc, dcArg, dcRes, dcSent, dcQ, dcLog>>
vars   == <<pvars, ivars, gvars, dvars>>

---------------------------------------------------------------------------
(* Bounds.                                                                 *)
MaxPayload == 8     \* longest payload appended to a header, in bytes
MaxPoints  == 5     \* most sweep points the analyzer holds
MaxCalls   == 2     \* get_trace calls started in one behaviour
MaxDCMsgs  == 4     \* messages the DC source receives in one behaviour

---------------------------------------------------------------------------
(* Bytes and Python conversions.                                           *)
ChHash  == 35
ChMinus == 45
ChPlus  == 43
ChSpace == 32
ChZero  == 48
ChNine  == 57

IsDigit(c) == c >= ChZero /\ c <= ChNine
IsSpace(c) == c \in {9, 10, 11, 12, 13, ChSpace}

RECURSIVE LStrip(_)
LStrip(s) == IF s # <<>> /\ IsSpace(Head(s)) THEN LStrip(Tail(s)) ELSE s

RECURSIVE RStrip(_)
RStrip(s) ==
    IF s # <<>> /\ IsSpace(s[Len(s)]) THEN RStrip(SubSeq(s, 1, Len(s) - 1)) ELSE s

RECURSIVE DigitsValue(_)
DigitsValue(s) ==
    IF s = <<>> THEN 0
    ELSE 10 * DigitsValue(SubSeq(s, 1, Len(s) - 1)) + (s[Len(s)] - ChZero)

\* An integer literal: an optional sign, then decimal digits.
IntLiteral(t) ==
    LET neg  == t # <<>> /\ Head(t) = ChMinus
        sgn  == t # <<>> /\ Head(t) \in {ChMinus, ChPlus}
        body == IF sgn THEN Tail(t) ELSE t
    IN  IF body # <<>> /\ \A i \in 1..Len(body) : IsDigit(body[i])
        THEN [ok |-> TRUE,
              val |-> IF neg THEN 0 - DigitsValue(body) ELSE DigitsValue(body)]
        ELSE [ok |-> FALSE, val |-> 0]

\* Python 2 int(str): surrounding whitespace is dropped, the rest must be an
\* integer literal.  Anything else raises ValueError.
PyInt(s) == IntLiteral(RStrip(LStrip(s)))

\* Python bool(str): a string is true iff it is not empty.
PyBool(s) == Len(s) > 0

Abs(x) == IF x < 0 THEN 0 - x ELSE x

RECURSIVE GCD(_, _)
GCD(a, b) == IF b = 0 THEN a ELSE GCD(b, a % b)

\* The float n/d for d # 0, as a rational in lowest terms.
Rat(n, d) ==
    LET g == GCD(Abs(n), Abs(d))
        s == IF d < 0 THEN 0 - 1 ELSE 1
    IN  [num |-> s * (n \div g), den |-> s * (d \div g)]

NoRat == [num |-> 0, den |-> 0]

RECURSIVE Pow10(_)
Pow10(e) == IF e = 0 THEN 1 ELSE 10 * Pow10(e - 1)

\* Position of the first 'E' or 'e' of t, 0 if it has none.
ExpMark(t) ==
    LET ks == {i \in 1..Len(t) : t[i] \in {69, 101}}
    IN  IF ks = {} THEN 0 ELSE CHOOSE k \in ks : \A j \in ks : k <= j

\* Python float(str) on the replies that occur here: surrounding whitespace
\* is dropped; an integer literal, or one followed by E and an integer
\* exponent, gives its value; a reply holding any other byte ('#', NUL, ','
\* ...) is no float literal and raises ValueError.
PyFloat(s) ==
    LET t == RStrip(LStrip(s))
        k == ExpMark(t)
        m == IntLiteral(IF k = 0 THEN t ELSE SubSeq(t, 1, k - 1))
        e == IF k = 0 THEN [ok |-> TRUE, val |-> 0]
                      ELSE IntLiteral(SubSeq(t, k + 1, Len(t)))
    IN  IF ~m.ok \/ ~e.ok THEN [ok |-> FALSE, val |-> NoRat]
        ELSE IF e.val >= 0 THEN [ok |-> TRUE, val |-> Rat(m.val * Pow10(e.val), 1)]
        ELSE [ok |-> TRUE, val |-> Rat(m.val, Pow10(0 - e.val))]

---------------------------------------------------------------------------
(* _parseBinaryData                                                        *)

\* The same four bytes read least significant first ('<l').
UnpackSwapped(b) ==
    (IF b[4] >= 128 THEN b[4] - 256 ELSE b[4]) * 16777216
        + b[3] * 65536 + b[2] * 256 + b[1]

\* struct.unpack of one '>l' field: big-endian two's complement, 32 bits.
UnpackLong(b) ==
    (IF b[1] >= 128 THEN b[1] - 256 ELSE b[1]) * 16777216
        + b[2] * 65536 + b[3] * 256 + b[4]

\* unpack('>' + 'l'*n, s): struct.error unless len(s) = 4n.
Unpack(n, s) ==
    IF Len(s) # 4 * n THEN [ok |-> FALSE, vals |-> <<>>]
    ELSE [ok |-> TRUE,
          vals |-> [i \in 1..n |-> UnpackLong(SubSeq(s, 4 * i - 3, 4 * i))]]

\* d/1000.0
Scale(v) == Rat(v, 1000)

\* A check that only catches a short payload: len(s) < d.
LengthShort(s, d) == Len(s) < d

\* len(s) != d
LengthMismatch(s, d) == Len(s) # d

Fail(kind) == [kind |-> kind, vals |-> <<>>]

ParseBinaryData(resp) ==
    IF Len(resp) < 2 THEN Fail("IndexError")                 \* data[1]
    ELSE LET hh == PyInt(<<resp[2]>>) IN                     \* h = int(data[1])
    IF ~hh.ok THEN Fail("ValueError")
    ELSE LET h  == hh.val
             lo == IF 2 + h < Len(resp) THEN 2 + h ELSE Len(resp)
             dd == PyInt(SubSeq(resp, 3, lo))                \* d = int(data[2:2+h])
         IN
    IF ~dd.ok THEN Fail("ValueError")
    ELSE LET d == dd.val
             s == SubSeq(resp, lo + 1, Len(resp))            \* s = data[2+h:]
         IN
    IF LengthMismatch(s, d) THEN Fail("HandlerError")
    ELSE LET n == d \div 4                                   \* n = d/4
             u == Unpack(n, s)
         IN
    IF ~u.ok THEN Fail("struct.error")
    ELSE [kind |-> "ok", vals |-> [i \in 1..n |-> Scale(u.vals[i])]]

---------------------------------------------------------------------------
(* Responses handed to _parseBinaryData: a marker (present, wrong or        *)
(* missing), a header-length character, a length field and a payload.       *)
BSeq(S, n) == UNION {[1..k -> S] : k \in 0..n}

\* 120 is 'x'; 48, 49, 50, 52, 53, 56 are '0', '1', '2', '4', '5', '8'.
Markers      == {<<ChHash>>, <<120>>, <<>>}
HChars       == {48, 49, 50, 120}
Fields       == BSeq({48, 52, 53, 56}, 2)
                    \cup {<<ChMinus, 52>>, <<ChSpace, 56>>, <<120>>}
PayloadBytes == {255, 48}
Responses    ==
    {m \o <<c>> \o f \o p :
        m \in Markers, c \in HChars, f \in Fields, p \in BSeq(PayloadBytes, MaxPayload)}

NoParse == [kind |-> "none", vals |-> <<>>]

InitParse ==
    /\ data \in Responses
    /\ ppc = "ready"
    /\ parsed = NoParse

\* vals = _parseBinaryData(resp)
Parse ==
    /\ ppc = "ready"
    /\ parsed' = ParseBinaryData(data)
    /\ ppc' = "done"
    /\ UNCHANGED <<data, ivars, gvars, dvars>>

---------------------------------------------------------------------------
(* The analyzer as seen through dev.query: SCPI lines in, replies out.      *)
Procs     == {1, 2}
TraceArgs == 0..4                      \* the setting takes a 'w' (unsigned)

Cmd(c, n) == [cmd |-> c, n |-> n]

RECURSIVE Digits(_)
Digits(n) ==
    IF n < 10 THEN <<ChZero + n>>
    ELSE Digits(n \div 10) \o <<ChZero + (n % 10)>>

SignedDigits(v) == IF v < 0 THEN <<ChMinus>> \o Digits(0 - v) ELSE Digits(v)

\* A frequency in Hz as the analyzer prints it: mantissa, 'E', exponent.
RECURSIVE Sci(_, _)
Sci(m, e) ==
    IF m # 0 /\ m % 10 = 0 THEN Sci(m \div 10, e + 1)
    ELSE SignedDigits(m) \o <<69>> \o Digits(e)

\* Sample i of trace t, in milli-units.
Level(t, i) == 1000 * i - 2000 * t

TraceData(t) == [i \in 1..npts |-> Level(t, i)]

\* The four bytes of a 32-bit two's-complement integer, most significant first.
LongBytes(v) ==
    <<(v \div 16777216) % 256, (v \div 65536) % 256, (v \div 256) % 256, v % 256>>

Reverse(s) == [i \in 1..Len(s) |-> s[Len(s) + 1 - i]]

RECURSIVE Payload(_, _)
Payload(vals, order) ==
    IF vals = <<>> THEN <<>>
    ELSE (IF order = "NORM" THEN LongBytes(Head(vals))
                            ELSE Reverse(LongBytes(Head(vals))))
            \o Payload(Tail(vals), order)

\* IEEE 488.2 definite-length block: '#', digit count, byte count, payload.
Block(payload) ==
    LET d == Digits(Len(payload))
    IN  <<ChHash>> \o Digits(Len(d)) \o d \o payload

RECURSIVE AsciiList(_)
AsciiList(vals) ==
    IF vals = <<>> THEN <<>>
    ELSE IF Len(vals) = 1 THEN SignedDigits(Head(vals))
    ELSE SignedDigits(Head(vals)) \o <<44>> \o AsciiList(Tail(vals))

TraceReply(f, b, t) ==
    IF f = "INT,32" THEN Block(Payload(TraceData(t), b))
                    ELSE AsciiList(TraceData(t))

\* One SCPI line acting on the instrument; st = [form, bord, out].
ExecLine(st, c) ==
    CASE c.cmd = ":FREQ:STAR?"     -> [st EXCEPT !.out = Append(@, Sci(startHz, 0))]
      [] c.cmd = ":FREQ:SPAN?"     -> [st EXCEPT !.out = Append(@, Sci(spanHz, 0))]
      [] c.cmd = ":FORM INT,32"    -> [st EXCEPT !.form = "INT,32"]
      [] c.cmd = ":FORM:BORD NORM" -> [st EXCEPT !.bord = "NORM"]
      [] c.cmd = ":TRAC? TRACE" /\ c.n \in 1..3
                                   -> [st EXCEPT !.out =
                                          Append(@, TraceReply(st.form, st.bord, c.n))]
      [] OTHER                     -> st

RECURSIVE ExecMsg(_, _)
ExecMsg(st, msg) ==
    IF msg = <<>> THEN st ELSE ExecMsg(ExecLine(st, Head(msg)), Tail(msg))

---------------------------------------------------------------------------
(* SpectrumAnalyzer.get_trace                                              *)

StartQuery == <<Cmd(":FREQ:STAR?", 0)>>
SpanQuery  == <<Cmd(":FREQ:SPAN?", 0)>>

\* The trace query alone, relying on the format the instrument is left in.
QueryNoFormat(trace) == <<Cmd(":TRAC? TRACE", trace)>>

\* The three lines with the trace query ahead of the format lines.
QueryFormatLast(trace) ==
    <<Cmd(":TRAC? TRACE", trace), Cmd(":FORM INT,32", 0), Cmd(":FORM:BORD NORM", 0)>>

\* __QUERY__ % trace
Query(trace) ==
    <<Cmd(":FORM INT,32", 0), Cmd(":FORM:BORD NORM", 0), Cmd(":TRAC? TRACE", trace)>>

\* The range check with its upper limit off by one: data > 4.
OutOfRangeUpTo4(d) == d < 1 \/ d > 4

\* data < 1 or data > 3
OutOfRange(d) == d < 1 \/ d > 3

\* start/1.0e6
StartMHz(st) == Rat(st.num, st.den * 1000000)

\* The step taken as span/1.0e6/n.
StepPerSample(sp, n) == Rat(sp.num, sp.den * 1000000 * n)

\* span/1.0e6/(n-1), for n # 1
StepMHz(sp, n) == Rat(sp.num, sp.den * 1000000 * (n - 1))

NoResult == [kind |-> "none", start |-> NoRat, step |-> NoRat, vals |-> <<>>]
Raise(kind) == [kind |-> kind, start |-> NoRat, step |-> NoRat, vals |-> <<>>]

\* Lines 64-66, given the locals start and span and the trace reply.
Finish(st, sp, resp) ==
    LET v == ParseBinaryData(resp)
        n == Len(v.vals)
    IN  IF v.kind # "ok" THEN Raise(v.kind)
        ELSE IF n - 1 = 0 THEN Raise("ZeroDivisionError")
        ELSE [kind |-> "ok", start |-> StartMHz(st), step |-> StepMHz(sp, n),
              vals |-> v.vals]

Waiting(p) == pc[p] \in {"w_start", "w_span", "w_trace"}
Queued(p)  == pc[p] \in {"q_start", "q_span", "q_trace"}
Ended(p)   == pc[p] \in {"done", "failed"}

\* Sweeps the analyzer may be set to: [start, span] in Hz.
Sweeps == {<<1000000000, 100000000>>, <<2000000000, 50000000>>}

InitInstr ==
    /\ \E sw \in Sweeps : startHz = sw[1] /\ spanHz = sw[2]
    /\ npts \in 0..MaxPoints
    /\ form \in {"INT,32", "ASC"}
    /\ bord \in {"NORM", "SWAP"}
    /\ outq = <<>>

InitCalls ==
    /\ pc = [p \in Procs |-> "idle"]
    /\ arg = [p \in Procs |-> 1]
    /\ start = [p \in Procs |-> NoRat]
    /\ span = [p \in Procs |-> NoRat]
    /\ result = [p \in Procs |-> NoResult]
    /\ sent = [p \in Procs |-> <<>>]
    /\ nrecv = [p \in Procs |-> 0]
    /\ overlap = [p \in Procs |-> FALSE]
    /\ ncalls = 0

\* A client context calls the setting: lines 57-61 up to the first yield.
Call(p, d) ==
    /\ pc[p] = "idle" \/ Ended(p)
    /\ ncalls < MaxCalls
    /\ ncalls' = ncalls + 1
    /\ arg' = [arg EXCEPT ![p] = d]
    /\ start' = [start EXCEPT ![p] = NoRat]
    /\ span' = [span EXCEPT ![p] = NoRat]
    /\ nrecv' = [nrecv EXCEPT ![p] = 0]
    /\ overlap' = [overlap EXCEPT ![p] = FALSE]
    /\ IF OutOfRange(d)
       THEN /\ pc' = [pc EXCEPT ![p] = "failed"]
            /\ result' = [result EXCEPT ![p] = Raise("Exception")]
            /\ sent' = [sent EXCEPT ![p] = <<>>]
       ELSE /\ pc' = [pc EXCEPT ![p] = "q_start"]
            /\ result' = [result EXCEPT ![p] = NoResult]
            /\ sent' = [sent EXCEPT ![p] = <<StartQuery>>]
    /\ UNCHANGED <<ivars, pvars, dvars>>

\* dev.query puts the message on the bus; the instrument acts on its lines in
\* order.  With excl the session lets one request be in flight at a time.
Transmit(p, excl) ==
    /\ Queued(p)
    /\ excl => \A q \in Procs : ~Waiting(q)
    /\ LET st == ExecMsg([form |-> form, bord |-> bord, out |-> outq],
                         sent[p][Len(sent[p])])
       IN  /\ form' = st.form
           /\ bord' = st.bord
           /\ outq' = st.out
    /\ pc' = [pc EXCEPT ![p] = CASE pc[p] = "q_start" -> "w_start"
                                 [] pc[p] = "q_span"  -> "w_span"
                                 [] pc[p] = "q_trace" -> "w_trace"]
    /\ overlap' = [q \in Procs |->
                     IF \E r \in Procs \ {p} : Waiting(r)
                     THEN (q = p \/ Waiting(q) \/ overlap[q])
                     ELSE overlap[q]]
    /\ UNCHANGED <<startHz, spanHz, npts, arg, start, span, result, sent, nrecv,
                   ncalls, pvars, dvars>>

\* Line 61 resumes with the reply; line 62 issues the span query.
RecvStart(p) ==
    /\ pc[p] = "w_start"
    /\ outq # <<>>
    /\ outq' = Tail(outq)
    /\ nrecv' = [nrecv EXCEPT ![p] = @ + 1]
    /\ LET f == PyFloat(Head(outq))
       IN  IF f.ok
           THEN /\ start' = [start EXCEPT ![p] = f.val]
                /\ sent' = [sent EXCEPT ![p] = Append(@, SpanQuery)]
                /\ pc' = [pc EXCEPT ![p] = "q_span"]
                /\ UNCHANGED result
           ELSE /\ result' = [result EXCEPT ![p] = Raise("ValueError")]
                /\ pc' = [pc EXCEPT ![p] = "failed"]
                /\ UNCHANGED <<start, sent>>
    /\ UNCHANGED <<startHz, spanHz, npts, form, bord, arg, span, overlap, ncalls,
                   pvars, dvars>>

\* Line 62 resumes with the reply; line 63 issues the trace query.
RecvSpan(p) ==
    /\ pc[p] = "w_span"
    /\ outq # <<>>
    /\ outq' = Tail(outq)
    /\ nrecv' = [nrecv EXCEPT ![p] = @ + 1]
    /\ LET f == PyFloat(Head(outq))
       IN  IF f.ok
           THEN /\ span' = [span EXCEPT ![p] = f.val]
                /\ sent' = [sent EXCEPT ![p] = Append(@, Query(arg[p]))]
                /\ pc' = [pc EXCEPT ![p] = "q_trace"]
                /\ UNCHANGED result
           ELSE /\ result' = [result EXCEPT ![p] = Raise("ValueError")]
                /\ pc' = [pc EXCEPT ![p] = "failed"]
                /\ UNCHANGED <<span, sent>>
    /\ UNCHANGED <<startHz, spanHz, npts, form, bord, arg, start, overlap, ncalls,
                   pvars, dvars>>

\* Line 63 resumes with the reply; lines 64-66 decode and return.
RecvTrace(p) ==
    /\ pc[p] = "w_trace"
    /\ outq # <<>>
    /\ outq' = Tail(outq)
    /\ nrecv' = [nrecv EXCEPT ![p] = @ + 1]
    /\ LET r == Finish(start[p], span[p], Head(outq))
       IN  /\ result' = [result EXCEPT ![p] = r]
           /\ pc' = [pc EXCEPT ![p] = IF r.kind = "ok" THEN "done" ELSE "failed"]
    /\ UNCHANGED <<startHz, spanHz, npts, form, bord, arg, start, span, sent,
                   overlap, ncalls, pvars, dvars>>

---------------------------------------------------------------------------
(* AgilentDCSource.output                                                  *)

\* The supply's reply to OUTP?: "1" when the output is on, "0" when off.
OutpReply(on) == IF on THEN <<ChZero + 1>> ELSE <<ChZero>>

\* 'OUTP %d' % state
OutpWrite(state) == IF state = "True" THEN "OUTP 1" ELSE "OUTP 0"

\* state = bool(ans)
StateOfAnswer(ans) == IF PyBool(ans) THEN "True" ELSE "False"

InitDC ==
    /\ dcOut \in BOOLEAN
    /\ dcPc = "idle"
    /\ dcArg = "None"
    /\ dcRes = "none"
    /\ dcSent = <<>>
    /\ dcQ = <<>>
    /\ dcLog = <<>>

\* Lines 46-51 up to the yield: a query without argument, a write with one.
Output(state) ==
    /\ dcPc \in {"idle", "done"}
    /\ Len(dcLog) < MaxDCMsgs
    /\ dcArg' = state
    /\ dcRes' = "none"
    /\ IF state = "None"
       THEN /\ dcSent' = <<"OUTP?">>
            /\ dcLog' = Append(dcLog, "OUTP?")
            /\ dcQ' = Append(dcQ, OutpReply(dcOut))
            /\ dcPc' = "w_query"
            /\ UNCHANGED dcOut
       ELSE /\ dcSent' = <<OutpWrite(state)>>
            /\ dcLog' = Append(dcLog, OutpWrite(state))
            /\ dcOut' = (OutpWrite(state) = "OUTP 1")
            /\ dcPc' = "w_write"
            /\ UNCHANGED dcQ
    /\ UNCHANGED <<pvars, ivars, gvars>>

\* Line 48 resumes with the answer; lines 49 and 52.
OutputAnswer ==
    /\ dcPc = "w_query"
    /\ dcQ # <<>>
    /\ dcRes' = StateOfAnswer(Head(dcQ))
    /\ dcQ' = Tail(dcQ)
    /\ dcPc' = "done"
    /\ UNCHANGED <<dcOut, dcArg, dcSent, dcLog, pvars, ivars, gvars>>

\* Line 51 resumes once the write is out; line 52.
OutputWritten ==
    /\ dcPc = "w_write"
    /\ dcRes' = dcArg
    /\ dcPc' = "done"
    /\ UNCHANGED <<dcOut, dcArg, dcSent, dcQ, dcLog, pvars, ivars, gvars>>

---------------------------------------------------------------------------
(* Specifications.                                                         *)

ParseOff ==
    /\ data = <<>>
    /\ ppc = "off"
    /\ parsed = NoParse

InstrOff ==
    /\ startHz = 1000000000
    /\ spanHz = 100000000
    /\ npts = 0
    /\ form = "ASC"
    /\ bord = "NORM"
    /\ outq = <<>>

DCOff ==
    /\ dcOut = FALSE
    /\ dcPc = "off"
    /\ dcArg = "None"
    /\ dcRes = "none"
    /\ dcSent = <<>>
    /\ dcQ = <<>>
    /\ dcLog = <<>>

\* get_trace from two client contexts, the session serialising requests.
Init == InitInstr /\ InitCalls /\ ParseOff /\ DCOff

Next ==
    \E p \in Procs :
        \/ \E d \in TraceArgs : Call(p, d)
        \/ Transmit(p, TRUE)
        \/ RecvStart(p)
        \/ RecvSpan(p)
        \/ RecvTrace(p)

Spec == Init /\ [][Next]_vars

\* The same with nothing keeping two requests from being in flight at once.
NextRace ==
    \E p \in Procs :
        \/ \E d \in TraceArgs : Call(p, d)
        \/ Transmit(p, FALSE)
        \/ RecvStart(p)
        \/ RecvSpan(p)
        \/ RecvTrace(p)

SpecRace == Init /\ [][NextRace]_vars

\* _parseBinaryData on every response of Responses.
InitP == InitParse /\ InstrOff /\ InitCalls /\ DCOff

NextParse == Parse

SpecParse == InitP /\ [][NextParse]_vars

\* The DC source's output setting.
InitD == InitDC /\ ParseOff /\ InstrOff /\ InitCalls

NextDC ==
    \/ \E s \in {"None", "True", "False"} : Output(s)
    \/ OutputAnswer
    \/ OutputWritten

SpecDC == InitD /\ [][NextDC]_vars

---------------------------------------------------------------------------
(* Properties.                                                             *)

\* The header of a block as IEEE 488.2 writes it: '#', a digit h >= 1, then
\* h decimal digits.
HeaderOK(r) ==
    /\ Len(r) >= 3
    /\ r[1] = ChHash
    /\ IsDigit(r[2]) /\ r[2] # ChZero
    /\ Len(r) >= 2 + (r[2] - ChZero)
    /\ \A i \in 3..(2 + (r[2] - ChZero)) : IsDigit(r[i])

RECURSIVE Decimal(_, _, _)
Decimal(r, i, j) == IF j < i THEN 0 ELSE 10 * Decimal(r, i, j - 1) + (r[j] - ChZero)

Declared(r)   == Decimal(r, 3, 2 + (r[2] - ChZero))
PayloadOf(r)  == SubSeq(r, 3 + (r[2] - ChZero), Len(r))

\* The float f is v/1000.
IsMilli(f, v) == f.den > 0 /\ 1000 % f.den = 0 /\ f.num * (1000 \div f.den) = v

\* The float f is the 32-bit big-endian two's-complement reading of the four
\* bytes b, divided by 1000.
IsSampleOf(f, b) ==
    /\ f.den > 0 /\ 1000 % f.den = 0
    /\ LongBytes(f.num * (1000 \div f.den)) = b

\* C1: a block whose header declares d, a multiple of 4, and whose payload is
\* d bytes long decodes to d/4 samples in payload order, sample i being the
\* big-endian signed 32-bit integer of bytes 4i..4i+3 over 1000; d = 0 gives
\* the empty sequence.
C1_Decode ==
    (ppc = "done" /\ HeaderOK(data) /\ Declared(data) % 4 = 0
                  /\ Len(PayloadOf(data)) = Declared(data))
    => /\ parsed.kind = "ok"
       /\ Len(parsed.vals) = Declared(data) \div 4
       /\ \A i \in 1..Len(parsed.vals) :
              IsSampleOf(parsed.vals[i], SubSeq(PayloadOf(data), 4 * i - 3, 4 * i))

C1_Witness ==
    /\ ppc = "done" /\ HeaderOK(data) /\ Declared(data) = 8
    /\ PayloadOf(data) = <<255, 255, 48, 255, 48, 255, 255, 48>>
    /\ parsed.kind = "ok"
    /\ parsed.vals = <<[num |-> 0 - 52993, den |-> 1000], [num |-> 102760422, den |-> 125]>>

\* C3: a block whose declared length differs from the payload present fails
\* with the malformed-block error (HandlerError) and yields no samples.
C3_Mismatch ==
    (ppc = "done" /\ HeaderOK(data) /\ Len(PayloadOf(data)) # Declared(data))
    => parsed.kind = "HandlerError" /\ parsed.vals = <<>>

C3_Witness ==
    /\ ppc = "done" /\ HeaderOK(data) /\ Declared(data) = 4
    /\ Len(PayloadOf(data)) = 8
    /\ parsed.kind = "HandlerError"

\* C6: a block whose declared length is no multiple of 4 fails with the
\* malformed-block error (HandlerError), also when the payload is d bytes long.
C6_Claim ==
    (ppc = "done" /\ HeaderOK(data) /\ Declared(data) % 4 # 0)
    => parsed.kind = "HandlerError"

\* C7: a response without the marker, or with a header-length character that
\* is no digit, or with a length field that is no decimal integer, fails with
\* the malformed-block error (HandlerError).
C7_Claim ==
    (ppc = "done" /\ ~HeaderOK(data)) => parsed.kind = "HandlerError"

\* C5: a trace index outside {1,2,3} fails with the out-of-range exception
\* and nothing is sent to the instrument in that call; an index in {1,2,3}
\* passes the range check.
C5_Range ==
    \A p \in Procs :
        pc[p] # "idle" =>
            IF arg[p] \in 1..3
            THEN result[p].kind # "Exception" /\ sent[p] # <<>>
            ELSE /\ pc[p] = "failed" /\ result[p].kind = "Exception"
                 /\ sent[p] = <<>> /\ nrecv[p] = 0

C5_Witness ==
    \E p \in Procs : arg[p] = 4 /\ pc[p] = "failed" /\ sent[p] = <<>>

\* C9: a call with a valid index sends the start query, then the span query,
\* then one message holding FORM INT,32, FORM:BORD NORM and TRAC? TRACEn in
\* that order, each only after the reply to the one before; the trace reply
\* is produced with the format the same call has just set.
C9_Order ==
    \A p \in Procs :
        (pc[p] # "idle" /\ arg[p] \in 1..3) =>
            LET want == << <<Cmd(":FREQ:STAR?", 0)>>,
                           <<Cmd(":FREQ:SPAN?", 0)>>,
                           <<Cmd(":FORM INT,32", 0), Cmd(":FORM:BORD NORM", 0),
                             Cmd(":TRAC? TRACE", arg[p])>> >>
            IN  /\ Len(sent[p]) \in 1..3
                /\ sent[p] = SubSeq(want, 1, Len(sent[p]))
                /\ Len(sent[p]) <= nrecv[p] + 1
                /\ pc[p] = "done" => nrecv[p] = 3
                /\ pc[p] = "w_trace" => form = "INT,32" /\ bord = "NORM"

C9_Witness ==
    \E p \in Procs :
        /\ pc[p] = "done" /\ nrecv[p] = 3 /\ Len(sent[p]) = 3
        /\ ncalls = MaxCalls /\ form = "INT,32" /\ bord = "NORM"

\* C2 as stated: the returned start is the queried start in Hz and the
\* returned step is span/(n-1) in Hz.
C2_Hz ==
    \A p \in Procs :
        (pc[p] = "done" /\ Len(result[p].vals) > 1) =>
            /\ result[p].start = Rat(startHz, 1)
            /\ result[p].step.num * (Len(result[p].vals) - 1)
                   = spanHz * result[p].step.den

\* C2 amended: the returned start is the queried start over 1e6 (MHz) and the
\* returned step is the queried span over 1e6 over (n-1) (MHz).
C2_MHz ==
    \A p \in Procs :
        (pc[p] = "done" /\ Len(result[p].vals) > 1) =>
            /\ result[p].start.den > 0 /\ result[p].step.den > 0
            /\ result[p].start.num * 1000000 = startHz * result[p].start.den
            /\ result[p].step.num * 1000000 * (Len(result[p].vals) - 1)
                   = spanHz * result[p].step.den

C2_Witness ==
    \E p \in Procs :
        /\ pc[p] = "done" /\ startHz = 1000000000 /\ spanHz = 100000000
        /\ Len(result[p].vals) = 5
        /\ result[p].start = [num |-> 1000, den |-> 1]
        /\ result[p].step = [num |-> 25, den |-> 1]

\* C4: with n <= 1 decoded samples get_trace fails; it returns no result.
C4_Claim ==
    \A p \in Procs : pc[p] = "done" => Len(result[p].vals) > 1

\* What the analyzer's settings and trace memory hold for a call of index t.
Faithful(r, t) ==
    /\ r.kind = "ok"
    /\ r.start.den > 0 /\ r.start.num * 1000000 = startHz * r.start.den
    /\ r.step.den > 0 /\ r.step.num * 1000000 * (npts - 1) = spanHz * r.step.den
    /\ Len(r.vals) = npts
    /\ \A i \in 1..npts : IsMilli(r.vals[i], Level(t, i))

Locals(p) == <<arg[p], start[p], span[p], result[p], sent[p], nrecv[p]>>

\* C10: with requests of two calls allowed in flight together, a call whose
\* requests never overlapped the other's returns what the instrument holds,
\* and no step of one call changes the other's locals (the instrument is all
\* they share); the witness is the interleaving in which a call returns
\* normally with a result the instrument does not hold.
C10_OnlyInstrumentShared ==
    /\ [](\A p \in Procs :
            (Ended(p) /\ arg[p] \in 1..3 /\ npts >= 2 /\ ~overlap[p])
                => Faithful(result[p], arg[p]))
    /\ [][\A p, q \in Procs :
            (p # q /\ pc'[q] # pc[q]) => Locals(p)' = Locals(p)]_vars

C10_Witness ==
    \E p \in Procs :
        /\ pc[p] = "done" /\ arg[p] \in 1..3 /\ npts >= 2 /\ overlap[p]
        /\ ~Faithful(result[p], arg[p])

\* C8: output() without argument returns True iff the supply reports its
\* output on; with an argument it writes that state, sends no query and
\* returns the argument.
C8_Claim ==
    dcPc = "done" =>
        IF dcArg = "None"
        THEN dcSent = <<"OUTP?">> /\ (dcRes = "True" <=> dcOut)
        ELSE dcSent = <<OutpWrite(dcArg)>> /\ dcRes = dcArg

====
